---- MODULE Spec2Model ----
(***************************************************************************)
(* State-machine model of check.py: the two enrichment passes             *)
(* (check_stats_no_scholix_but_datacite = pass A,                         *)
(* check_stats_no_scholix_no_datacite = pass B) and the summary of        *)
(* __main__, over a file system holding the two input and the two output  *)
(* CSV files and a remote service answering each lookup.                  *)
(*                                                                         *)
(* Modelling conventions                                                   *)
(*  - a Python Optional value is a tuple: <<>> is None, <<s>> is the       *)
(*    string s;                                                            *)
(*  - a file is [exists, lines]; lines[1] is the header line split on ';'  *)
(*    and every later line is one CSV row (a tuple of cells).  A file      *)
(*    with no line at all is a zero-byte file;                             *)
(*  - identifiers are atomic strings; the links_in_scholix cell is a       *)
(*    tuple of characters so that str() and int() are real conversions;    *)
(*  - a URL is the tuple of the pieces the f-string interpolates;          *)
(*  - the percentage is an exact rational [num, den] (IEEE rounding is     *)
(*    not modelled).                                                       *)
(***************************************************************************)
EXTENDS Integers, Sequences, FiniteSets, TLC

\* ---------------------------------------------------------------- bounds
\* Largest number of data records in the two input files taken together.
MaxRecords == 2

\* ------------------------------------------------------------- constants
scholexplorer_domain == "https://api.scholexplorer.openaire.eu/"

InA  == "20251124_no_Scholix_but_DataCite.csv"
InB  == "20251124_no_Scholix_no_DataCite.csv"
OutA == "no_scholix_but_datacite_check.csv"
OutB == "no_scholix_no_datacite.csv"
Paths == {InA, InB, OutA, OutB}

RelCol == "DataCite_RelationType_of_Dataset_PID_record"

\* Header lines of the input files (spec section 6 / module docstring).
HeaderA == <<"Dataset_PID", "Literature_PID", RelCol>>
HeaderB == <<"Dataset_PID", "Literature_PID">>

\* Keys of current_stats, in insertion order (= the output header).
FieldsA == <<"Dataset_PID", "Literature_PID", RelCol, "links_in_scholix", "url_to_scholix">>
FieldsB == <<"Dataset_PID", "Literature_PID", "links_in_scholix", "url_to_scholix">>

\* ------------------------------------------------------- Python values
None == <<>>
Some(s) == <<s>>

\* str(v) as an f-string interpolates it: None prints as the word None.
FStr(v) == IF v = None THEN "None" ELSE v[1]

\* What csv.writer puts in a cell: None becomes the empty string.
CsvStr(v) == IF v = None THEN "" ELSE v[1]

Digit == <<"0", "1", "2", "3", "4", "5", "6", "7", "8", "9">>

RECURSIVE NatToStr(_)
NatToStr(n) == IF n < 10 THEN <<Digit[n + 1]>>
               ELSE NatToStr(n \div 10) \o <<Digit[(n % 10) + 1]>>

\* str(n) of a Python int, as a tuple of characters.
IntToStr(n) == IF n < 0 THEN <<"-">> \o NatToStr(-n) ELSE NatToStr(n)

DigitVal(c) == CHOOSE d \in 0..9 : Digit[d + 1] = c
IsDigit(c) == \E d \in 0..9 : Digit[d + 1] = c
AllDigits(s) == Len(s) > 0 /\ \A i \in 1..Len(s) : IsDigit(s[i])

RECURSIVE DigitsVal(_)
DigitsVal(s) == IF Len(s) = 0 THEN 0
                ELSE 10 * DigitsVal(SubSeq(s, 1, Len(s) - 1)) + DigitVal(s[Len(s)])

\* int(cell): cell is None (TypeError), or text that is an optional sign
\* followed by decimal digits (anything else: ValueError).
IntParses(cell) ==
    /\ cell # None
    /\ LET s == cell[1] IN
         \/ AllDigits(s)
         \/ Len(s) > 1 /\ s[1] \in {"-", "+"} /\ AllDigits(Tail(s))

IntOf(cell) ==
    LET s == cell[1] IN
      IF s[1] = "-" THEN 0 - DigitsVal(Tail(s))
      ELSE IF s[1] = "+" THEN DigitsVal(Tail(s))
      ELSE DigitsVal(s)

\* --------------------------------------------------------- JSON values
\* The value under 'totalLinks': a JSON number or a JSON string.
JInt(n) == [t |-> "int", i |-> n, s |-> <<>>]
JStr(s) == [t |-> "str", i |-> 0, s |-> s]

\* What csv.writer puts in the links_in_scholix cell: str(value).
PyStr(v) == IF v.t = "int" THEN IntToStr(v.i) ELSE v.s

TotalLinksValues == {JInt(0), JInt(2), JStr(<<"m", "a", "n", "y">>)}

\* A response of requests.get(url).json(): the transport fails, or the
\* decoded object lacks 'totalLinks', or it carries a value.
Responses ==
    {[kind |-> "transport_error", total |-> JInt(0)],
     [kind |-> "no_totalLinks", total |-> JInt(0)]}
    \cup {[kind |-> "ok", total |-> v] : v \in TotalLinksValues}

\* --------------------------------------------------------------- files
Missing == [exists |-> FALSE, lines |-> <<>>]
FileOf(lines) == [exists |-> TRUE, lines |-> lines]

\* Position of column name k in a header (0 when absent).
ColIndex(header, k) ==
    IF \E i \in 1..Len(header) : header[i] = k
    THEN CHOOSE i \in 1..Len(header) : header[i] = k
    ELSE 0

\* One row of csv.DictReader: keys are the header names, a short row gets
\* None (restval) for the missing keys, extra cells are not under any name.
DictRow(header, row) ==
    [k \in {header[i] : i \in 1..Len(header)} |->
        IF ColIndex(header, k) <= Len(row) THEN Some(row[ColIndex(header, k)]) ELSE None]

\* read_csv(file_path), run to exhaustion: the exception it raises, if any,
\* and the rows it yields.  open() of a missing path raises
\* FileNotFoundError; next() on a file without a first line raises
\* StopIteration inside the generator, which reaches the caller as
\* RuntimeError.  The header is kept already split and stripped.
read_csv(f) ==
    IF ~f.exists THEN [err |-> "FileNotFoundError", items |-> <<>>]
    ELSE IF Len(f.lines) = 0 THEN [err |-> "RuntimeError", items |-> <<>>]
    ELSE [err |-> "none",
          items |-> [i \in 1..(Len(f.lines) - 1) |-> DictRow(f.lines[1], f.lines[i + 1])]]

\* ------------------------------------------------------ query building
\* Lines 105-109: the f-string of pass A always carries &relation=.
UrlA(item) ==
    <<scholexplorer_domain, "/v3/Links?sourcePid=", FStr(item.Dataset_PID),
      "&targetPid=", FStr(item.Literature_PID),
      "&relation=", FStr(item.DataCite_RelationType_of_Dataset_PID_record)>>

\* Lines 150-153: the f-string of pass B has no relation piece.
UrlB(item) ==
    <<scholexplorer_domain, "/v3/Links?sourcePid=", FStr(item.Dataset_PID),
      "&targetPid=", FStr(item.Literature_PID)>>

\* Lines 111-117: current_stats of pass A.
StatA(item, links, url) ==
    [Dataset_PID |-> item.Dataset_PID,
     Literature_PID |-> item.Literature_PID,
     DataCite_RelationType_of_Dataset_PID_record |->
         item.DataCite_RelationType_of_Dataset_PID_record,
     links_in_scholix |-> links,
     url_to_scholix |-> url]

\* Lines 155-160: current_stats of pass B.
StatB(item, links, url) ==
    [Dataset_PID |-> item.Dataset_PID,
     Literature_PID |-> item.Literature_PID,
     links_in_scholix |-> links,
     url_to_scholix |-> url]

\* writer.writerow(row) with fieldnames = FieldsA / FieldsB.
CsvRowA(st) ==
    <<CsvStr(st.Dataset_PID), CsvStr(st.Literature_PID),
      CsvStr(st.DataCite_RelationType_of_Dataset_PID_record),
      PyStr(st.links_in_scholix), st.url_to_scholix>>

CsvRowB(st) ==
    <<CsvStr(st.Dataset_PID), CsvStr(st.Literature_PID),
      PyStr(st.links_in_scholix), st.url_to_scholix>>

\* Lines 125-129 / 168-172: header line, then one line per element of stats.
CsvLinesA_reversed(st) == <<FieldsA>> \o [i \in 1..Len(st) |-> CsvRowA(st[Len(st) + 1 - i])]
CsvLinesA(st) == <<FieldsA>> \o [i \in 1..Len(st) |-> CsvRowA(st[i])]
CsvLinesB(st) == <<FieldsB>> \o [i \in 1..Len(st) |-> CsvRowB(st[i])]

\* ------------------------------------------------------------ summary
RECURSIVE Gcd(_, _)
Gcd(a, b) == IF b = 0 THEN a ELSE Gcd(b, a % b)
Rat(n, d) == [num |-> n \div Gcd(n, d), den |-> d \div Gcd(n, d)]
RatTimes(q, k) == Rat(q.num * k, q.den)
Zero == Rat(0, 1)

\* int(k['links_in_scholix']) succeeds for every row of the list.
AllLinksParse(items) ==
    \A i \in 1..Len(items) :
        /\ "links_in_scholix" \in DOMAIN items[i]
        /\ IntParses(items[i].links_in_scholix)

\* len([k for k in items if int(k['links_in_scholix']) > 0])
RECURSIVE CountWithLinks_ge(_)
CountWithLinks_ge(items) ==
    IF Len(items) = 0 THEN 0
    ELSE (IF IntOf(items[1].links_in_scholix) >= 0 THEN 1 ELSE 0)
         + CountWithLinks_ge(Tail(items))

RECURSIVE CountWithLinks(_)
CountWithLinks(items) ==
    IF Len(items) = 0 THEN 0
    ELSE (IF IntOf(items[1].links_in_scholix) > 0 THEN 1 ELSE 0)
         + CountWithLinks(Tail(items))

\* Lines 187-189 / 193-196: the three printed figures.
Percentage(w, n) == IF n > 0 THEN RatTimes(Rat(w, n), 100) ELSE Zero

Summary(items) ==
    [total |-> Len(items),
     with_links |-> CountWithLinks(items),
     percentage |-> Percentage(CountWithLinks(items), Len(items))]

\* --------------------------------------------------------------- state
VARIABLES
    disk,       \* the file system: path -> file
    pc,         \* position of the interpreter in check.py
    pos,        \* rows the read_csv generator of the running pass has yielded
    item,       \* loop variable of the running pass (None outside the loop body)
    stats,      \* the list stats of the running pass
    inflight,   \* URL of the requests.get call that has not returned (or None)
    statsRead,  \* lines 181-182: the two lists read back, by output path
    printed,    \* the summaries printed so far, by output path (None: not printed)
    status,     \* "running", "exit0" (normal end) or "exit1" (uncaught exception)
    error,      \* the uncaught exception ("none" while there is none)
    disk0,      \* history: the file system when the run started
    lookups,    \* history: per pass, the lookups that returned a totalLinks value
    log         \* history: the I/O events of the run, in order

vars == <<disk, pc, pos, item, stats, inflight, statsRead, printed, status,
          error, disk0, lookups, log>>

Ev(kind, pass, n) == [kind |-> kind, pass |-> pass, n |-> n]

\* ------------------------------------------------------ initial states
RECURSIVE SeqsOfLen(_, _)
SeqsOfLen(S, n) ==
    IF n = 0 THEN {<<>>}
    ELSE {Append(q, x) : q \in SeqsOfLen(S, n - 1), x \in S}
SeqsUpTo(S, n) == UNION {SeqsOfLen(S, k) : k \in 0..n}

\* Data rows of input A: a full row, a row with an empty relation, and a
\* row one field short of the header (no relation cell).
RowsA == {<<"D1", "L1", "IsSupplementTo">>, <<"D2", "L2", "">>, <<"D1", "L1">>}
RowsB == {<<"D1", "L1">>, <<"D2", "L2">>}

InputsA == {Missing, FileOf(<<>>)}
           \cup {FileOf(<<HeaderA>> \o rows) : rows \in SeqsUpTo(RowsA, MaxRecords)}
InputsB == {Missing, FileOf(<<>>)}
           \cup {FileOf(<<HeaderB>> \o rows) : rows \in SeqsUpTo(RowsB, MaxRecords)}

NumRecords(f) == IF Len(f.lines) = 0 THEN 0 ELSE Len(f.lines) - 1

\* Output files left by earlier runs: rows as pass A / pass B write them.
OldItemA == DictRow(HeaderA, <<"D9", "L9", "Cites">>)
OldItemB == DictRow(HeaderB, <<"D9", "L9">>)
OldRowA(v) == CsvRowA(StatA(OldItemA, v, UrlA(OldItemA)))
OldRowB(v) == CsvRowB(StatB(OldItemB, v, UrlB(OldItemB)))
OldCounts == <<JInt(0), JInt(3), JInt(0), JInt(5), JInt(1)>>

\* What may be at an output path before the run: nothing, a zero-byte file,
\* a header with no record, or the report of an earlier run.
OldOutputsA ==
    {Missing, FileOf(<<>>), FileOf(<<FieldsA>>),
     FileOf(<<FieldsA>> \o [i \in 1..Len(OldCounts) |-> OldRowA(OldCounts[i])])}
OldOutputsB ==
    {Missing, FileOf(<<>>), FileOf(<<FieldsB>>),
     FileOf(<<FieldsB>> \o [i \in 1..Len(OldCounts) |-> OldRowB(OldCounts[i])])}

Init ==
    /\ \E ia \in InputsA, ib \in InputsB, oa \in OldOutputsA, ob \in OldOutputsB :
          /\ NumRecords(ia) + NumRecords(ib) <= MaxRecords
          /\ disk = [p \in Paths |->
                        IF p = InA THEN ia ELSE IF p = InB THEN ib
                        ELSE IF p = OutA THEN oa ELSE ob]
    /\ disk0 = disk
    /\ pc = "A_for"
    /\ pos = 0
    /\ item = None
    /\ stats = <<>>
    /\ inflight = None
    /\ statsRead = [p \in {OutA, OutB} |-> <<>>]
    /\ printed = [p \in {OutA, OutB} |-> None]
    /\ status = "running"
    /\ error = "none"
    /\ lookups = [p \in {"A", "B"} |-> <<>>]
    /\ log = <<>>

\* An uncaught exception: the interpreter prints the traceback and exits 1.
Raise(e) ==
    /\ pc' = "abort"
    /\ status' = "exit1"
    /\ error' = e

\* -------------------------------------------------------------- pass A
\* Line 103, first next(): read_csv cannot open the file or has no header.
A_ReadFail ==
    /\ pc = "A_for"
    /\ read_csv(disk[InA]).err # "none"
    /\ Raise(read_csv(disk[InA]).err)
    /\ log' = Append(log, Ev("read_fail", "A", pos))
    /\ UNCHANGED <<disk, pos, item, stats, inflight, statsRead, printed, disk0, lookups>>

\* Lines 103-110: the generator yields the next row, the URL is built and
\* requests.get is called.
A_Request ==
    /\ pc = "A_for"
    /\ read_csv(disk[InA]).err = "none"
    /\ pos < Len(read_csv(disk[InA]).items)
    /\ item' = Some(read_csv(disk[InA]).items[pos + 1])
    /\ pos' = pos + 1
    /\ inflight' = Some(UrlA(item'[1]))
    /\ pc' = "A_get"
    /\ log' = Append(log, Ev("request", "A", pos + 1))
    /\ UNCHANGED <<disk, stats, statsRead, printed, status, error, disk0, lookups>>

\* Variant: a failed lookup saves the records enriched so far before the
\* exception leaves the function.
A_Response_checkpoint(r) ==
    /\ pc = "A_get"
    /\ inflight' = None
    /\ IF r.kind = "ok"
       THEN /\ stats' = Append(stats, StatA(item[1], r.total, inflight[1]))
            /\ lookups' = [lookups EXCEPT !["A"] =
                              Append(@, [url |-> inflight[1], total |-> r.total])]
            /\ pc' = "A_for"
            /\ item' = None
            /\ log' = Append(log, Ev("response", "A", pos))
            /\ UNCHANGED <<status, error, disk>>
       ELSE /\ Raise(IF r.kind = "no_totalLinks" THEN "KeyError" ELSE "RequestException")
            /\ log' = Append(log, Ev("lookup_fail", "A", pos))
            /\ disk' = [disk EXCEPT ![OutA] = FileOf(CsvLinesA(stats))]
            /\ UNCHANGED <<stats, lookups, item>>
    /\ UNCHANGED <<pos, statsRead, printed, disk0>>

\* Lines 110-119: the call returns; ['totalLinks'] is taken and the record
\* is appended.  A transport failure or a missing key is not caught.
A_Response(r) ==
    /\ pc = "A_get"
    /\ inflight' = None
    /\ IF r.kind = "ok"
       THEN /\ stats' = Append(stats, StatA(item[1], r.total, inflight[1]))
            /\ lookups' = [lookups EXCEPT !["A"] =
                              Append(@, [url |-> inflight[1], total |-> r.total])]
            /\ pc' = "A_for"
            /\ item' = None
            /\ log' = Append(log, Ev("response", "A", pos))
            /\ UNCHANGED <<status, error>>
       ELSE /\ Raise(IF r.kind = "no_totalLinks" THEN "KeyError" ELSE "RequestException")
            /\ log' = Append(log, Ev("lookup_fail", "A", pos))
            /\ UNCHANGED <<stats, lookups, item>>
    /\ UNCHANGED <<disk, pos, statsRead, printed, disk0>>

\* Line 103: the generator is exhausted, the loop ends.
A_LoopEnd ==
    /\ pc = "A_for"
    /\ read_csv(disk[InA]).err = "none"
    /\ pos >= Len(read_csv(disk[InA]).items)
    /\ pc' = "A_if"
    /\ UNCHANGED <<disk, pos, item, stats, inflight, statsRead, printed, status,
                   error, disk0, lookups, log>>

\* Variant: an empty pass still writes a report holding only the header.
A_Skip_writes_header ==
    /\ pc = "A_if"
    /\ stats = <<>>
    /\ disk' = [disk EXCEPT ![OutA] = FileOf(<<FieldsA>>)]
    /\ pc' = "B_for"
    /\ pos' = 0
    /\ log' = Append(log, Ev("skip", "A", 0))
    /\ UNCHANGED <<item, stats, inflight, statsRead, printed, status, error,
                   disk0, lookups>>

\* Lines 121-122: nothing to write; the function returns.
A_Skip ==
    /\ pc = "A_if"
    /\ stats = <<>>
    /\ pc' = "B_for"
    /\ pos' = 0
    /\ log' = Append(log, Ev("skip", "A", 0))
    /\ UNCHANGED <<disk, item, stats, inflight, statsRead, printed, status, error,
                   disk0, lookups>>

\* Variant: the report is opened as soon as the first record is enriched,
\* while the loop is still running.
A_Open_early(ok) ==
    /\ pc \in {"A_for", "A_if"}
    /\ stats # <<>>
    /\ \A i \in 1..Len(log) : log[i].kind # "open"
    /\ IF ok
       THEN /\ disk' = [disk EXCEPT ![OutA] = FileOf(<<>>)]
            /\ pc' = IF pc = "A_if" THEN "A_write" ELSE pc
            /\ log' = Append(log, Ev("open", "A", Len(stats)))
            /\ UNCHANGED <<status, error>>
       ELSE /\ Raise("OSError")
            /\ log' = Append(log, Ev("write_fail", "A", 0))
            /\ UNCHANGED disk
    /\ UNCHANGED <<pos, item, stats, inflight, statsRead, printed, disk0, lookups>>

\* Lines 124-125: open(out_path, "w") creates or truncates the file, or fails.
A_Open(ok) ==
    /\ pc = "A_if"
    /\ stats # <<>>
    /\ IF ok
       THEN /\ disk' = [disk EXCEPT ![OutA] = FileOf(<<>>)]
            /\ pc' = "A_write"
            /\ log' = Append(log, Ev("open", "A", Len(stats)))
            /\ UNCHANGED <<status, error>>
       ELSE /\ Raise("OSError")
            /\ log' = Append(log, Ev("write_fail", "A", 0))
            /\ UNCHANGED disk
    /\ UNCHANGED <<pos, item, stats, inflight, statsRead, printed, disk0, lookups>>

\* Lines 126-130: header and rows are written, the file is closed and the
\* function returns.
A_Write ==
    /\ pc = "A_write"
    /\ disk' = [disk EXCEPT ![OutA] = FileOf(CsvLinesA(stats))]
    /\ pc' = "B_for"
    /\ pos' = 0
    /\ stats' = <<>>
    /\ log' = Append(log, Ev("close", "A", Len(stats)))
    /\ UNCHANGED <<item, inflight, statsRead, printed, status, error, disk0, lookups>>

\* Lines 126-129: a write fails after n lines reached the file.
A_WriteFail(n) ==
    /\ pc = "A_write"
    /\ n \in 0..Len(stats)
    /\ disk' = [disk EXCEPT ![OutA] = FileOf(SubSeq(CsvLinesA(stats), 1, n))]
    /\ Raise("OSError")
    /\ log' = Append(log, Ev("write_fail", "A", n))
    /\ UNCHANGED <<pos, item, stats, inflight, statsRead, printed, disk0, lookups>>

\* -------------------------------------------------------------- pass B
\* Line 148, first next(): read_csv cannot open the file or has no header.
B_ReadFail ==
    /\ pc = "B_for"
    /\ read_csv(disk[InB]).err # "none"
    /\ Raise(read_csv(disk[InB]).err)
    /\ log' = Append(log, Ev("read_fail", "B", pos))
    /\ UNCHANGED <<disk, pos, item, stats, inflight, statsRead, printed, disk0, lookups>>

\* Lines 148-154: the generator yields the next row, the URL is built and
\* requests.get is called.
B_Request ==
    /\ pc = "B_for"
    /\ read_csv(disk[InB]).err = "none"
    /\ pos < Len(read_csv(disk[InB]).items)
    /\ item' = Some(read_csv(disk[InB]).items[pos + 1])
    /\ pos' = pos + 1
    /\ inflight' = Some(UrlB(item'[1]))
    /\ pc' = "B_get"
    /\ log' = Append(log, Ev("request", "B", pos + 1))
    /\ UNCHANGED <<disk, stats, statsRead, printed, status, error, disk0, lookups>>

\* Lines 154-162: the call returns; ['totalLinks'] is taken and the record
\* is appended.  A transport failure or a missing key is not caught.
B_Response(r) ==
    /\ pc = "B_get"
    /\ inflight' = None
    /\ IF r.kind = "ok"
       THEN /\ stats' = Append(stats, StatB(item[1], r.total, inflight[1]))
            /\ lookups' = [lookups EXCEPT !["B"] =
                              Append(@, [url |-> inflight[1], total |-> r.total])]
            /\ pc' = "B_for"
            /\ item' = None
            /\ log' = Append(log, Ev("response", "B", pos))
            /\ UNCHANGED <<status, error>>
       ELSE /\ Raise(IF r.kind = "no_totalLinks" THEN "KeyError" ELSE "RequestException")
            /\ log' = Append(log, Ev("lookup_fail", "B", pos))
            /\ UNCHANGED <<stats, lookups, item>>
    /\ UNCHANGED <<disk, pos, statsRead, printed, disk0>>

\* Line 148: the generator is exhausted, the loop ends.
B_LoopEnd ==
    /\ pc = "B_for"
    /\ read_csv(disk[InB]).err = "none"
    /\ pos >= Len(read_csv(disk[InB]).items)
    /\ pc' = "B_if"
    /\ UNCHANGED <<disk, pos, item, stats, inflight, statsRead, printed, status,
                   error, disk0, lookups, log>>

\* Lines 164-165: nothing to write; the function returns.
B_Skip ==
    /\ pc = "B_if"
    /\ stats = <<>>
    /\ pc' = "M181"
    /\ pos' = 0
    /\ log' = Append(log, Ev("skip", "B", 0))
    /\ UNCHANGED <<disk, item, stats, inflight, statsRead, printed, status, error,
                   disk0, lookups>>

\* Lines 167-168: open(out_path, "w") creates or truncates the file, or fails.
B_Open(ok) ==
    /\ pc = "B_if"
    /\ stats # <<>>
    /\ IF ok
       THEN /\ disk' = [disk EXCEPT ![OutB] = FileOf(<<>>)]
            /\ pc' = "B_write"
            /\ log' = Append(log, Ev("open", "B", Len(stats)))
            /\ UNCHANGED <<status, error>>
       ELSE /\ Raise("OSError")
            /\ log' = Append(log, Ev("write_fail", "B", 0))
            /\ UNCHANGED disk
    /\ UNCHANGED <<pos, item, stats, inflight, statsRead, printed, disk0, lookups>>

\* Lines 169-173: header and rows are written, the file is closed and the
\* function returns.
B_Write ==
    /\ pc = "B_write"
    /\ disk' = [disk EXCEPT ![OutB] = FileOf(CsvLinesB(stats))]
    /\ pc' = "M181"
    /\ pos' = 0
    /\ stats' = <<>>
    /\ log' = Append(log, Ev("close", "B", Len(stats)))
    /\ UNCHANGED <<item, inflight, statsRead, printed, status, error, disk0, lookups>>

\* Lines 169-172: a write fails after n lines reached the file.
B_WriteFail(n) ==
    /\ pc = "B_write"
    /\ n \in 0..Len(stats)
    /\ disk' = [disk EXCEPT ![OutB] = FileOf(SubSeq(CsvLinesB(stats), 1, n))]
    /\ Raise("OSError")
    /\ log' = Append(log, Ev("write_fail", "B", n))
    /\ UNCHANGED <<pos, item, stats, inflight, statsRead, printed, disk0, lookups>>

\* ------------------------------------------------------------- __main__
\* Line 181: output A is read back into a list.
M_ReadA ==
    /\ pc = "M181"
    /\ IF read_csv(disk[OutA]).err = "none"
       THEN /\ statsRead' = [statsRead EXCEPT ![OutA] = read_csv(disk[OutA]).items]
            /\ pc' = "M182"
            /\ log' = Append(log, Ev("summary_read", "A", 0))
            /\ UNCHANGED <<status, error>>
       ELSE /\ Raise(read_csv(disk[OutA]).err)
            /\ log' = Append(log, Ev("summary_fail", "A", 0))
            /\ UNCHANGED statsRead
    /\ UNCHANGED <<disk, pos, item, stats, inflight, printed, disk0, lookups>>

\* Line 182: output B is read back into a list.
M_ReadB ==
    /\ pc = "M182"
    /\ IF read_csv(disk[OutB]).err = "none"
       THEN /\ statsRead' = [statsRead EXCEPT ![OutB] = read_csv(disk[OutB]).items]
            /\ pc' = "M184"
            /\ log' = Append(log, Ev("summary_read", "B", 0))
            /\ UNCHANGED <<status, error>>
       ELSE /\ Raise(read_csv(disk[OutB]).err)
            /\ log' = Append(log, Ev("summary_fail", "B", 0))
            /\ UNCHANGED statsRead
    /\ UNCHANGED <<disk, pos, item, stats, inflight, printed, disk0, lookups>>

\* Variant: the percentage of output A is computed without the len() > 0
\* guard, so an empty list divides by zero.
M_SummaryA_unguarded ==
    /\ pc = "M184"
    /\ IF AllLinksParse(statsRead[OutA]) /\ Len(statsRead[OutA]) > 0
       THEN /\ printed' = [printed EXCEPT ![OutA] = Some(Summary(statsRead[OutA]))]
            /\ pc' = "M192"
            /\ UNCHANGED <<status, error>>
       ELSE /\ Raise(IF AllLinksParse(statsRead[OutA]) THEN "ZeroDivisionError"
                     ELSE "ValueError")
            /\ UNCHANGED printed
    /\ UNCHANGED <<disk, pos, item, stats, inflight, statsRead, disk0, lookups, log>>

\* Lines 184-189: int() of every count of output A, then the three prints.
M_SummaryA ==
    /\ pc = "M184"
    /\ IF AllLinksParse(statsRead[OutA])
       THEN /\ printed' = [printed EXCEPT ![OutA] = Some(Summary(statsRead[OutA]))]
            /\ pc' = "M192"
            /\ UNCHANGED <<status, error>>
       ELSE /\ Raise("ValueError")
            /\ UNCHANGED printed
    /\ UNCHANGED <<disk, pos, item, stats, inflight, statsRead, disk0, lookups, log>>

\* Lines 192-196: the same for output B; the script ends.
M_SummaryB ==
    /\ pc = "M192"
    /\ IF AllLinksParse(statsRead[OutB])
       THEN /\ printed' = [printed EXCEPT ![OutB] = Some(Summary(statsRead[OutB]))]
            /\ pc' = "done"
            /\ status' = "exit0"
            /\ UNCHANGED error
       ELSE /\ Raise("ValueError")
            /\ UNCHANGED printed
    /\ UNCHANGED <<disk, pos, item, stats, inflight, statsRead, disk0, lookups, log>>

Next ==
    \/ A_ReadFail
    \/ A_Request
    \/ \E r \in Responses : A_Response(r)
    \/ A_LoopEnd
    \/ A_Skip
    \/ \E ok \in BOOLEAN : A_Open(ok)
    \/ A_Write
    \/ \E n \in 0..MaxRecords : A_WriteFail(n)
    \/ B_ReadFail
    \/ B_Request
    \/ \E r \in Responses : B_Response(r)
    \/ B_LoopEnd
    \/ B_Skip
    \/ \E ok \in BOOLEAN : B_Open(ok)
    \/ B_Write
    \/ \E n \in 0..MaxRecords : B_WriteFail(n)
    \/ M_ReadA
    \/ M_ReadB
    \/ M_SummaryA
    \/ M_SummaryB

Spec == Init /\ [][Next]_vars

\* ------------------------------------------------------------- typing
TypeOK ==
    /\ pc \in {"A_for", "A_get", "A_if", "A_write", "B_for", "B_get", "B_if",
               "B_write", "M181", "M182", "M184", "M192", "done", "abort"}
    /\ status \in {"running", "exit0", "exit1"}
    /\ pos \in 0..MaxRecords
    /\ (status = "exit0") = (pc = "done")
    /\ (status = "exit1") = (pc = "abort")
    /\ (error = "none") = (status # "exit1")

\* ------------------------------------------------- vocabulary of claims
Passes == {"A", "B"}
InOf(p)  == IF p = "A" THEN InA ELSE InB
OutOf(p) == IF p = "A" THEN OutA ELSE OutB

Happened(kind, p) == \E i \in 1..Len(log) : log[i].kind = kind /\ log[i].pass = p
LookupKinds == {"request", "response", "lookup_fail"}
WriteKinds  == {"open", "close", "write_fail"}
PassEnded(p) == Happened("close", p) \/ Happened("skip", p)

\* The records of an input file, as the pass reads them.
InputItems(p) == read_csv(disk0[InOf(p)]).items
Readable(p) == read_csv(disk0[InOf(p)]).err = "none"

\* A totalLinks value that is an integer >= 0.
IsCount(v) == v.t = "int" /\ v.i >= 0

\* A URL carries a relation piece.
HasRelation(url) == \E i \in 1..Len(url) : url[i] = "&relation="

\* A file made of a header line and no record.
HeaderOnly(f) == f.exists /\ Len(f.lines) = 1

\* The links_in_scholix cells of the records of a report file.
LinkCells(f) ==
    [i \in 1..(Len(f.lines) - 1) |->
        f.lines[i + 1][ColIndex(f.lines[1], "links_in_scholix")]]
NumericCells(f) ==
    \A i \in 1..(Len(f.lines) - 1) : IntParses(Some(LinkCells(f)[i]))

\* Where the uncaught exception of an aborted run was raised.
RaisedAt ==
    IF pc # "abort" THEN "nowhere"
    ELSE IF \E i \in 1..Len(log) :
                log[i].kind \in {"read_fail", "lookup_fail", "write_fail"}
    THEN "pass"
    ELSE IF Happened("summary_fail", "A") THEN "read A"
    ELSE IF Happened("summary_fail", "B") THEN "read B"
    ELSE IF printed[OutA] = None THEN "summary A"
    ELSE "summary B"

\* C1: when a pass has written its report for an input of N >= 1 records,
\* the report holds N records and the i-th carries the i-th input record's
\* (Dataset_PID, Literature_PID) pair.
C1_OrderPreserved ==
    \A p \in Passes :
        Happened("close", p) =>
            LET in  == InputItems(p)
                out == read_csv(disk[OutOf(p)]).items
            IN  /\ Len(in) >= 1
                /\ Len(out) = Len(in)
                /\ \A i \in 1..Len(in) :
                      /\ out[i].Dataset_PID = in[i].Dataset_PID
                      /\ out[i].Literature_PID = in[i].Literature_PID

\* Pass A wrote two different records.
C1_Witness ==
    /\ Happened("close", "A")
    /\ Len(InputItems("A")) = 2
    /\ InputItems("A")[1].Dataset_PID # InputItems("A")[2].Dataset_PID

\* The report pass A wrote, rebuilt from the input and the lookups answered.
WrittenByA ==
    FileOf(CsvLinesA([i \in 1..Len(lookups["A"]) |->
        StatA(InputItems("A")[i], lookups["A"][i].total, lookups["A"][i].url)]))

\* C2: after a failed lookup nothing else happens: the run has stopped at
\* that event, the report of the failing pass is as it was before the run,
\* no summary is printed, and when the failure is in pass B the report of
\* pass A is what pass A wrote (or untouched when pass A had nothing to write).
C2_AbortOnLookupFailure ==
    \A p \in Passes :
        Happened("lookup_fail", p) =>
            /\ log[Len(log)].kind = "lookup_fail"
            /\ pc = "abort" /\ status = "exit1"
            /\ disk[OutOf(p)] = disk0[OutOf(p)]
            /\ \A o \in {OutA, OutB} : printed[o] = None
            /\ ~Happened("summary_read", "A")
            /\ (p = "A" => \A i \in 1..Len(log) : log[i].pass = "A")
            /\ (p = "B" /\ Happened("close", "A") => disk[OutA] = WrittenByA)
            /\ (p = "B" /\ Happened("skip", "A") => disk[OutA] = disk0[OutA])

\* A lookup failed after at least one record of the pass had been enriched.
C2_Witness ==
    /\ log # <<>>
    /\ log[Len(log)].kind = "lookup_fail"
    /\ stats # <<>>

\* C3 (as claimed): a URL carries a relation piece exactly when the record
\* of pass A has a relation value (not None); a URL of pass B never does.
C3_RelationIffSupplied ==
    /\ \A i \in 1..Len(lookups["A"]) :
          HasRelation(lookups["A"][i].url)
              <=> (InputItems("A")[i].DataCite_RelationType_of_Dataset_PID_record # None)
    /\ \A i \in 1..Len(lookups["B"]) : ~HasRelation(lookups["B"][i].url)

\* C4: a pass whose input holds no record issues no lookup, does no output
\* I/O, leaves its output path as it was before the run, and ends without
\* an exception.
C4_EmptyInputSkips ==
    \A p \in Passes :
        (Readable(p) /\ InputItems(p) = <<>>) =>
            /\ \A i \in 1..Len(log) :
                  log[i].pass = p => log[i].kind \notin (LookupKinds \cup WriteKinds)
            /\ disk[OutOf(p)] = disk0[OutOf(p)]
            /\ (p = "A" /\ pc \notin {"A_for", "A_if"} => Happened("skip", "A"))
            /\ (p = "B" /\ PassEnded("A") /\ pc \notin {"B_for", "B_if"}
                    /\ ~Happened("read_fail", "B")
                  => Happened("skip", "B"))
            /\ ~Happened("read_fail", p)

\* Pass A skipped its write while an earlier report was on disk.
C4_Witness ==
    /\ Happened("skip", "A")
    /\ disk0[OutA].exists
    /\ Len(disk0[OutA].lines) > 1
    /\ pc = "B_for"

\* C5: a report holding a header and no record is summarised as total 0,
\* percentage 0, and neither reading it nor summarising it raises.
C5_EmptyOutputSummary ==
    /\ \A o \in {OutA, OutB} :
          (HeaderOnly(disk[o]) /\ printed[o] # None) =>
              /\ printed[o][1].total = 0
              /\ printed[o][1].percentage = Zero
    /\ HeaderOnly(disk[OutA]) => RaisedAt \notin {"read A", "summary A"}
    /\ HeaderOnly(disk[OutB]) => RaisedAt \notin {"read B", "summary B"}

\* Both reports hold a header and no record, and both summaries are printed.
C5_Witness ==
    /\ pc = "done"
    /\ HeaderOnly(disk[OutA])
    /\ HeaderOnly(disk[OutB])

\* C6: a printed summary gives the number of records of the report file,
\* the number of them whose count is > 0, and (total > 0) the percentage
\* with_links * 100 / total; a report whose counts are all numeric is never
\* the cause of a ValueError.
C6_SummaryCounts ==
    /\ \A o \in {OutA, OutB} :
          printed[o] # None =>
              LET f == disk[o]
                  sm == printed[o][1]
                  positive == {i \in 1..(Len(f.lines) - 1) :
                                  IntOf(Some(LinkCells(f)[i])) > 0}
              IN  /\ NumericCells(f)
                  /\ sm.total = Len(f.lines) - 1
                  /\ sm.with_links = Cardinality(positive)
                  /\ 0 <= sm.with_links /\ sm.with_links <= sm.total
                  /\ sm.total > 0 =>
                        sm.percentage.num * sm.total
                            = sm.with_links * 100 * sm.percentage.den
    /\ RaisedAt = "summary A" => ~NumericCells(disk[OutA])
    /\ RaisedAt = "summary B" => ~NumericCells(disk[OutB])

\* The report with counts 0, 3, 0, 5, 1 is summarised as 5, 3, 60.
C6_Witness ==
    /\ printed[OutA] # None
    /\ Len(disk[OutA].lines) = 6
    /\ [i \in 1..5 |-> IntOf(Some(LinkCells(disk[OutA])[i]))] = <<0, 3, 0, 5, 1>>
    /\ printed[OutA][1] = [total |-> 5, with_links |-> 3, percentage |-> Rat(60, 1)]

\* C7 (as claimed): the run ends with a non-zero status only when an input
\* file could not be read, a lookup failed or a write failed.
C7_FailsOnlyOnIoFailure ==
    status = "exit1" =>
        \E i \in 1..Len(log) : log[i].kind \in {"read_fail", "lookup_fail", "write_fail"}

\* C8: the events of a run are totally ordered: a request is the first
\* event of its pass or directly follows the response to the previous
\* record; a response directly follows its request and its record is in
\* stats before the next request; the report is opened directly after the
\* last response of the pass; every event of pass B follows the end of pass
\* A; the summary reads follow the end of both passes.
C8_EventOrder ==
    /\ \A i \in 1..Len(log) :
          LET e == log[i] IN
          /\ e.kind = "request" =>
                IF e.n = 1
                THEN \A j \in 1..(i - 1) : log[j].pass # e.pass
                ELSE i > 1 /\ log[i - 1] = Ev("response", e.pass, e.n - 1)
          /\ e.kind \in {"response", "lookup_fail"} =>
                i > 1 /\ log[i - 1] = Ev("request", e.pass, e.n)
          /\ e.kind = "open" =>
                /\ i > 1 /\ log[i - 1] = Ev("response", e.pass, e.n)
                /\ e.n = Len(InputItems(e.pass))
                /\ \A j \in (i + 1)..Len(log) :
                      log[j].pass = e.pass => log[j].kind \notin LookupKinds
          /\ e.kind = "close" => i > 1 /\ log[i - 1] = Ev("open", e.pass, e.n)
          /\ (e.pass = "B" /\ e.kind \notin {"summary_read", "summary_fail"}) =>
                /\ \E j \in 1..(i - 1) :
                      log[j] \in {Ev("skip", "A", 0), Ev("close", "A", log[j].n)}
                /\ \A j \in (i + 1)..Len(log) :
                      log[j].pass = "A" => log[j].kind \in {"summary_read", "summary_fail"}
          /\ e.kind \in {"summary_read", "summary_fail"} =>
                \A p \in Passes : \E j \in 1..(i - 1) :
                    log[j].pass = p /\ log[j].kind \in {"skip", "close"}
    /\ (inflight # None) = (pc \in {"A_get", "B_get"})
    /\ pc \in {"A_for", "A_get"} =>
          Len(stats) = Len(lookups["A"]) /\ pos = Len(stats) + (IF pc = "A_get" THEN 1 ELSE 0)
    /\ pc \in {"B_for", "B_get"} =>
          Len(stats) = Len(lookups["B"]) /\ pos = Len(stats) + (IF pc = "B_get" THEN 1 ELSE 0)

\* A run in which each pass looked one record up, wrote its report and the
\* summaries were printed.
C8_Witness ==
    /\ pc = "done"
    /\ Happened("close", "A")
    /\ Happened("close", "B")

\* C9 (as claimed): every record a pass wrote carries an integer >= 0 that
\* is the totalLinks value its lookup returned.
C9_LinksAreCounts ==
    \A p \in Passes :
        Happened("close", p) =>
            \A i \in 1..Len(lookups[p]) :
                /\ IsCount(lookups[p][i].total)
                /\ LinkCells(disk[OutOf(p)])[i] = IntToStr(lookups[p][i].total.i)

\* C10 (as claimed): when the run completes, each printed summary counts
\* the records the pass verified in this run and those whose lookup
\* returned a count > 0.
C10_SummaryDescribesRun ==
    pc = "done" =>
        \A p \in Passes :
            LET sm == printed[OutOf(p)][1] IN
            /\ sm.total = Len(lookups[p])
            /\ sm.with_links =
                  Cardinality({i \in 1..Len(lookups[p]) :
                                  lookups[p][i].total.t = "int" /\ lookups[p][i].total.i > 0})

====
